---- MODULE Spec2Model ----
(***************************************************************************)
(* Static lookup tables of halo2-cq                                        *)
(* (halo2_proofs/src/plonk/static_lookup.rs).                              *)
(*                                                                         *)
(* The scalar field E::Scalar is the prime field of P elements; the groups *)
(* G1 and G2 are cyclic of prime order P, so a group element is written as *)
(* its discrete logarithm in 0..P-1 (addition of points is addition mod P, *)
(* scalar multiplication is multiplication mod P).  usize is a word of W   *)
(* bits.  Rust integer arithmetic panics on overflow in a build with       *)
(* overflow checks ("debug") and wraps in one without ("release"); both    *)
(* builds are modelled.  Sequences are 1-based here; the indices the       *)
(* program stores and receives (table positions, SRS indices) keep their   *)
(* 0-based values.                                                         *)
(***************************************************************************)
EXTENDS Integers, Sequences, FiniteSets, TLC

VARIABLES build, pc, values, srs_g1, new_outcome, table,
          commit_args, commit_outcome, commit_ret, util

vars == <<build, pc, values, srs_g1, new_outcome, table,
          commit_args, commit_outcome, commit_ret, util>>

(***************************************************************************)
(* Bounds of the model.                                                    *)
(***************************************************************************)
\* bits of a usize word
W == 4
\* longest values array handed to new
MaxLen == 4
\* table values are drawn from 0..MaxVal
MaxVal == 3
\* longest first-group reference string handed to new
MaxSrs1 == 3
\* longest second-group reference string handed to commit
MaxSrs2 == 5
\* largest ordinary srs_g1_len handed to commit
MaxR == 4
\* largest ordinary circuit_domain handed to commit
MaxD == 4
\* nesting depth of the lookup input expressions
MaxDepth == 2

\* order of the scalar field and of both groups
P == 17

Builds == {"debug", "release"}
Slots == {1, 2}
Word == 0 .. (2^W - 1)

(***************************************************************************)
(* Field and group arithmetic.                                             *)
(***************************************************************************)
FAdd(a, b) == (a + b) % P
FSub(a, b) == (a + P - b) % P
FMul(a, b) == (a * b) % P

RECURSIVE FPow(_, _)
FPow(a, e) == IF e = 0 THEN 1 ELSE FMul(a, FPow(a, e - 1))

\* Field::invert: None (here P, outside the field) for zero
FInvert(a) == IF a % P = 0 THEN P ELSE CHOOSE b \in 1 .. (P - 1) : FMul(a, b) = 1

\* two-adicity of the field: P - 1 = 2^S * odd
S == CHOOSE s \in 0 .. P : (P - 1) % (2^s) = 0 /\ (P - 1) % (2^(s + 1)) # 0

\* a primitive 2^S-th root of unity
ROOT_OF_UNITY ==
    CHOOSE g \in 1 .. (P - 1) :
        /\ FPow(g, 2^S) = 1
        /\ \A e \in 1 .. (2^S - 1) : FPow(g, e) # 1

RECURSIVE SumTo(_, _)
\* f[1] + ... + f[n] in the field (and in the groups)
SumTo(f, n) == IF n = 0 THEN 0 ELSE FAdd(SumTo(f, n - 1), f[n])

Range(s) == {s[i] : i \in 1 .. Len(s)}
Prefix(s, n) == [i \in 1 .. n |-> s[i]]

(***************************************************************************)
(* Machine integers.  A result is [ok, v]: ok is FALSE when the operation  *)
(* panics (overflow checks on), v is the value the program goes on with.   *)
(***************************************************************************)
usub(a, b, bld) ==
    IF a >= b THEN [ok |-> TRUE, v |-> a - b]
    ELSE IF bld = "debug" THEN [ok |-> FALSE, v |-> 0]
    ELSE [ok |-> TRUE, v |-> a - b + 2^W]

uadd(a, b, bld) ==
    IF a + b < 2^W THEN [ok |-> TRUE, v |-> a + b]
    ELSE IF bld = "debug" THEN [ok |-> FALSE, v |-> 0]
    ELSE [ok |-> TRUE, v |-> a + b - 2^W]

RECURSIVE BitAnd(_, _)
BitAnd(x, y) ==
    IF x = 0 \/ y = 0 THEN 0
    ELSE (x % 2) * (y % 2) + 2 * BitAnd(x \div 2, y \div 2)

RECURSIVE BitLen(_)
BitLen(x) == IF x = 0 THEN 0 ELSE 1 + BitLen(x \div 2)

leading_zeros(x) == W - BitLen(x)

\* (x & (x - 1)) == 0
is_pow_2(x, bld) ==
    LET d == usub(x, 1, bld)
    IN  [ok |-> d.ok, v |-> d.ok /\ BitAnd(x, d.v) = 0]

\* (usize::BITS - 1) - x.leading_zeros()
log2(x, bld) == usub(W - 1, leading_zeros(x), bld)

(***************************************************************************)
(* The primitives new and commit consume: the evaluation domain, the       *)
(* inverse FFT, division by X - b and the multi-scalar multiplication.     *)
(***************************************************************************)
\* EvaluationDomain::new(2, k) has roots of unity only for k <= S
domain_exists(k) == k <= S
get_omega(k) == FPow(ROOT_OF_UNITY, 2^(S - k))
get_omega_inv(k) == FInvert(get_omega(k))
ifft_divisor(k) == FInvert(FPow(2, k))

\* coefficient j of the polynomial with evaluations a over 1, w, w^2, ...
ifft(a, omega_inv, log_n, divisor) ==
    [j \in 1 .. Len(a) |->
        FMul(divisor,
             SumTo([i \in 1 .. Len(a) |->
                       FMul(a[i], FPow(omega_inv, (i - 1) * (j - 1)))],
                   Len(a)))]

RECURSIVE kate_coeff(_, _, _)
\* coefficient k (1-based) of the quotient of a by X - b, from the top down
kate_coeff(a, b, k) ==
    IF k = Len(a) - 1 THEN a[k + 1]
    ELSE FAdd(a[k + 1], FMul(b, kate_coeff(a, b, k + 1)))

\* the quotient of a by X - b; the remainder is dropped
kate_division(a, b) == [k \in 1 .. (Len(a) - 1) |-> kate_coeff(a, b, k)]

\* sum of coeffs[i] * bases[i]
best_multiexp(coeffs, bases) ==
    SumTo([i \in 1 .. Len(coeffs) |-> FMul(coeffs[i], bases[i])], Len(coeffs))

(***************************************************************************)
(* StaticTableValues::new                                                  *)
(***************************************************************************)
\* a plausible slip: the first position of a repeated value is kept, 1-based
value_index_mapping_first(vals) ==
    [v \in Range(vals) |-> CHOOSE i \in 1 .. Len(vals) :
                               vals[i] = v /\ \A j \in 1 .. (i - 1) : vals[j] # v]

\* values.iter().enumerate().map(|(i, &f)| (f, i)).collect(): a later pair
\* replaces an earlier one with the same key
value_index_mapping(vals) ==
    [v \in Range(vals) |->
        (CHOOSE i \in 1 .. Len(vals) :
             vals[i] = v /\ \A j \in (i + 1) .. Len(vals) : vals[j] # v) - 1]

\* successors(Some(one), |p| p * w).take(size)
roots_of_unity(w, size) == [i \in 1 .. size |-> FPow(w, i - 1)]

\* values.to_vec() through the inverse FFT: the coefficients of T(X)
new_table_coeffs(vals, k) == ifft(vals, get_omega_inv(k), k, ifft_divisor(k))

\* a plausible slip: the quotient scaled by g_i alone
quotient_scaled_no_ninv(table_coeffs, g_i, n_inv) ==
    LET quotient == kate_division(table_coeffs, g_i)
    IN  [k \in 1 .. Len(quotient) |-> FMul(quotient[k], g_i)]

\* kate_division(&table_coeffs, g_i), each coefficient times g_i * n_inv
quotient_scaled(table_coeffs, g_i, n_inv) ==
    LET quotient == kate_division(table_coeffs, g_i)
    IN  [k \in 1 .. Len(quotient) |-> FMul(FMul(quotient[k], g_i), n_inv)]

\* a plausible slip: the duplicate check left out
new_checks_nodup(vals, bld) ==
    LET p == is_pow_2(Len(vals), bld)
    IN  IF ~p.ok THEN "ArithmeticOverflow"
        ELSE IF ~p.v THEN "InvalidTableSize"
        ELSE "ok"

\* the two assertions that open new
new_checks(vals, bld) ==
    LET size == Len(vals)
        p == is_pow_2(size, bld)
        keys_len == Cardinality(DOMAIN value_index_mapping(vals))
    IN  IF ~p.ok THEN "ArithmeticOverflow"
        ELSE IF ~p.v THEN "InvalidTableSize"
        ELSE IF size # keys_len THEN "DuplicateTableValue"
        ELSE "ok"

\* the table new builds once every check has passed
new_table(vals, srs, k) ==
    LET size == Len(vals)
        n_inv == FInvert(size % P)
        roots == roots_of_unity(get_omega(k), size)
        table_coeffs == new_table_coeffs(vals, k)
    IN  [size |-> size,
         value_index_mapping |-> value_index_mapping(vals),
         qs |-> [i \in 1 .. size |->
                    LET quotient == quotient_scaled(table_coeffs, roots[i], n_inv)
                    IN  best_multiexp(quotient, Prefix(srs, Len(quotient)))]]

\* new(values, srs_g1): [outcome, table], the table an Option (<<>> is None).
\* dom_panics: whether EvaluationDomain::new panics when asked for a domain
\* the field does not have.
new(vals, srs, bld, dom_panics) ==
    LET size == Len(vals)
        chk == new_checks(vals, bld)
        l == log2(size, bld)
        Fail(e) == [outcome |-> e, table |-> <<>>]
    IN  IF chk # "ok" THEN Fail(chk)
        ELSE IF ~l.ok THEN Fail("ArithmeticOverflow")
        ELSE IF ~domain_exists(l.v) /\ dom_panics THEN Fail("DomainPanic")
        ELSE IF size % P = 0 THEN Fail("InvertZero")
        ELSE IF ~domain_exists(l.v) THEN Fail("DomainPanic")
        ELSE IF Len(srs) < size - 1 THEN Fail("ReferenceStringTooShort")
        ELSE [outcome |-> "ok", table |-> <<new_table(vals, srs, l.v)>>]

(***************************************************************************)
(* StaticTableValues::commit                                               *)
(***************************************************************************)
RECURSIVE SortedSeq(_)
\* the elements of a set in increasing order: BTreeMap's key order
SortedSeq(set) ==
    IF set = {} THEN <<>>
    ELSE LET m == CHOOSE x \in set : \A y \in set : x <= y
         IN  <<m>> \o SortedSeq(set \ {m})

RECURSIVE SeqByIndex(_, _)
\* the keys of a value -> index mapping, ordered by their stored index
SeqByIndex(m, i) ==
    IF \A v \in DOMAIN m : m[v] # i THEN <<>>
    ELSE <<CHOOSE v \in DOMAIN m : m[v] = i>> \o SeqByIndex(m, i + 1)

\* a plausible repair of commit: the keys taken back in table order
commit_table_coeffs_by_index(self) ==
    LET k == log2(self.size, "release").v
    IN  ifft(SeqByIndex(self.value_index_mapping, 0),
             get_omega_inv(k), k, ifft_divisor(k))

\* value_index_mapping.keys().cloned().collect() through the inverse FFT
commit_table_coeffs(self) ==
    LET k == log2(self.size, "release").v
    IN  ifft(SortedSeq(DOMAIN self.value_index_mapping),
             get_omega_inv(k), k, ifft_divisor(k))

\* srs_g1_len - 1 - (circuit_domain - 2), in usize
b0_bound_index(srs_g1_len, circuit_domain, bld) ==
    LET a == usub(srs_g1_len, 1, bld)
        b == usub(circuit_domain, 2, bld)
        c == usub(a.v, b.v, bld)
    IN  [ok |-> a.ok /\ b.ok /\ c.ok, v |-> c.v]

\* commit(&self, srs_g1_len, srs_g2, circuit_domain): [outcome, ret], ret an
\* Option (<<>> is None)
commit(self, srs_g1_len, srs_g2, circuit_domain, bld) ==
    LET l == log2(self.size, bld)
        p == is_pow_2(self.size, bld)
        b0 == b0_bound_index(srs_g1_len, circuit_domain, bld)
        Fail(e) == [outcome |-> e, ret |-> <<>>]
    IN  IF ~l.ok \/ ~p.ok THEN Fail("ArithmeticOverflow")
        ELSE IF ~domain_exists(l.v) THEN Fail("DomainPanic")
        ELSE IF ~p.v THEN Fail("InvalidTableSize")
        ELSE IF Len(srs_g2) <= self.size THEN Fail("ReferenceStringTooShort")
        ELSE IF ~b0.ok THEN Fail("ArithmeticOverflow")
        ELSE IF b0.v >= Len(srs_g2) THEN Fail("ReferenceStringTooShort")
        ELSE LET table_coeffs == commit_table_coeffs(self)
             IN  [outcome |-> "ok",
                  ret |-> <<[zv |-> FSub(srs_g2[self.size + 1], srs_g2[1]),
                             t |-> best_multiexp(table_coeffs,
                                                 Prefix(srs_g2, Len(table_coeffs))),
                             x_b0_bound |-> srs_g2[b0.v + 1],
                             size |-> srs_g1_len]>>]

(***************************************************************************)
(* Argument::required_degree                                               *)
(***************************************************************************)
Leaves == {<<"Constant">>, <<"Advice">>}

RECURSIVE Exprs(_)
\* the input expressions of nesting depth at most d (the right operand of a
\* sum or product is a leaf)
Exprs(d) ==
    IF d = 0 THEN Leaves
    ELSE LET E == Exprs(d - 1)
         IN  Leaves
             \cup {<<"Negated", a>> : a \in E}
             \cup {<<"Scaled", a>> : a \in E}
             \cup {<<"Sum", a, b>> : a \in E, b \in Leaves}
             \cup {<<"Product", a, b>> : a \in E, b \in Leaves}

Max(a, b) == IF a >= b THEN a ELSE b

RECURSIVE degree(_)
\* Expression::degree
degree(e) ==
    CASE e[1] = "Constant" -> 0
      [] e[1] = "Advice" -> 1
      [] e[1] = "Negated" -> degree(e[2])
      [] e[1] = "Scaled" -> degree(e[2])
      [] e[1] = "Sum" -> Max(degree(e[2]), degree(e[3]))
      [] e[1] = "Product" -> degree(e[2]) + degree(e[3])

\* a plausible slip: the gate's degree taken as 1 + degree
required_degree_low(self, bld) ==
    LET d == uadd(1, degree(self.input), bld)
    IN  [ok |-> d.ok, v |-> Max(3, d.v)]

\* std::cmp::max(3, 2 + self.input.degree())
required_degree(self, bld) ==
    LET d == uadd(2, degree(self.input), bld)
    IN  [ok |-> d.ok, v |-> Max(3, d.v)]

(***************************************************************************)
(* Inputs.                                                                 *)
(***************************************************************************)
\* the arrays of at most n values drawn from vs
Arrays(vs, n) == UNION {[1 .. k -> vs] : k \in 0 .. n}

\* the secret exponents of the reference strings (3 generates the
\* multiplicative group, so its powers are pairwise distinct)
Taus == {3}

\* the reference string 1, tau, tau^2, ... of n elements
SrsOf(tau, n) == [i \in 1 .. n |-> FPow(tau, i - 1)]

ValueArrays == Arrays(0 .. MaxVal, MaxLen)
Srs1Set == {SrsOf(tau, n) : tau \in Taus, n \in 0 .. MaxSrs1}
Srs2Set == {SrsOf(tau, n) : tau \in Taus, n \in 0 .. MaxSrs2}
CommitArgs ==
    [srs_g1_len : 0 .. MaxR,
     srs_g2 : Srs2Set,
     circuit_domain : (0 .. MaxD) \cup {2^W - 1}]

\* the inputs of the two-table runs: arrays of 2 or 4 distinct values
PairArrays ==
    {a \in Arrays(0 .. 3, 4) :
        Len(a) \in {2, 4} /\ Cardinality(Range(a)) = Len(a)}
PairSrs1 == {SrsOf(tau, 3) : tau \in Taus}
PairArgs ==
    [srs_g1_len : {0, 3},
     srs_g2 : {SrsOf(tau, 5) : tau \in Taus},
     circuit_domain : {2, 2^W - 1}]

Arguments == [input : Exprs(MaxDepth), table_id : {"bits_table"}]

(***************************************************************************)
(* The state machine.                                                      *)
(***************************************************************************)
Init ==
    /\ build \in Builds
    /\ pc = [s \in Slots |-> "start"]
    /\ values = [s \in Slots |-> <<>>]
    /\ srs_g1 = [s \in Slots |-> <<>>]
    /\ new_outcome = [s \in Slots |-> "none"]
    /\ table = [s \in Slots |-> <<>>]
    /\ commit_args = [s \in Slots |-> <<>>]
    /\ commit_outcome = [s \in Slots |-> "none"]
    /\ commit_ret = [s \in Slots |-> <<>>]
    /\ util = <<>>

\* slot s := StaticTableValues::new(vals, srs)
NewOn(s, arrays, srss) ==
    /\ pc[s] = "start"
    /\ util = <<>>
    /\ \E vals \in arrays, srs \in srss, dom_panics \in BOOLEAN :
          LET r == new(vals, srs, build, dom_panics)
          IN  /\ values' = [values EXCEPT ![s] = vals]
              /\ srs_g1' = [srs_g1 EXCEPT ![s] = srs]
              /\ new_outcome' = [new_outcome EXCEPT ![s] = r.outcome]
              /\ table' = [table EXCEPT ![s] = r.table]
              /\ pc' = [pc EXCEPT ![s] = IF r.outcome = "ok" THEN "built" ELSE "failed"]
    /\ UNCHANGED <<build, commit_args, commit_outcome, commit_ret, util>>

\* slot s's table .commit(srs_g1_len, srs_g2, circuit_domain)
CommitOn(s, argset) ==
    /\ pc[s] = "built"
    /\ \E a \in argset :
          LET r == commit(table[s][1], a.srs_g1_len, a.srs_g2, a.circuit_domain, build)
          IN  /\ commit_args' = [commit_args EXCEPT ![s] = <<a>>]
              /\ commit_outcome' = [commit_outcome EXCEPT ![s] = r.outcome]
              /\ commit_ret' = [commit_ret EXCEPT ![s] = r.ret]
              /\ pc' = [pc EXCEPT ![s] = "committed"]
    /\ UNCHANGED <<build, values, srs_g1, new_outcome, table, util>>

New == NewOn(1, ValueArrays, Srs1Set)

Commit == CommitOn(1, CommitArgs)

\* is_pow_2(x)
IsPow2 ==
    /\ pc[1] = "start"
    /\ util = <<>>
    /\ \E x \in Word :
          LET r == is_pow_2(x, build)
          IN  util' = <<[fn |-> "is_pow_2", x |-> x, input |-> <<>>,
                         ok |-> r.ok, flag |-> r.v, ret |-> 0]>>
    /\ UNCHANGED <<build, pc, values, srs_g1, new_outcome, table,
                   commit_args, commit_outcome, commit_ret>>

\* log2(x)
Log2 ==
    /\ pc[1] = "start"
    /\ util = <<>>
    /\ \E x \in Word :
          LET r == log2(x, build)
          IN  util' = <<[fn |-> "log2", x |-> x, input |-> <<>>,
                         ok |-> r.ok, flag |-> FALSE, ret |-> r.v]>>
    /\ UNCHANGED <<build, pc, values, srs_g1, new_outcome, table,
                   commit_args, commit_outcome, commit_ret>>

\* argument.required_degree()
RequiredDegree ==
    /\ pc[1] = "start"
    /\ util = <<>>
    /\ \E arg \in Arguments :
          LET r == required_degree(arg, build)
          IN  util' = <<[fn |-> "required_degree", x |-> 0, input |-> arg.input,
                         ok |-> r.ok, flag |-> FALSE, ret |-> r.v]>>
    /\ UNCHANGED <<build, pc, values, srs_g1, new_outcome, table,
                   commit_args, commit_outcome, commit_ret>>

Next == New \/ Commit \/ IsPow2 \/ Log2 \/ RequiredDegree

Spec == Init /\ [][Next]_vars

\* two tables side by side
NewPair == \E s \in Slots : NewOn(s, PairArrays, PairSrs1)

CommitPair == \E s \in Slots : CommitOn(s, PairArgs)

NextPair == NewPair \/ CommitPair

SpecPair == Init /\ [][NextPair]_vars

(***************************************************************************)
(* Properties.                                                             *)
(***************************************************************************)
\* n = 2^k for some k >= 0, over the integers
IsPowerOfTwo(n) == \E k \in 0 .. W : n = 2^k

\* the k with n = 2^k
ExponentOf(n) == CHOOSE k \in 0 .. W : n = 2^k

Distinct(a) == \A i, j \in 1 .. Len(a) : i # j => a[i] # a[j]

\* the value of the polynomial with coefficients c at x
Eval(c, x) == SumTo([j \in 1 .. Len(c) |-> FMul(c[j], FPow(x, j - 1))], Len(c))

\* the coefficients of (X - g) * q + v, a polynomial of n coefficients
LinearTimesPlus(q, g, v, n) ==
    [j \in 1 .. n |->
        FAdd(FSub(IF j >= 2 THEN q[j - 1] ELSE 0,
                  FMul(g, IF j <= n - 1 THEN q[j] ELSE 0)),
             IF j = 1 THEN v ELSE 0)]

NewCalled(s) == new_outcome[s] # "none"
CommitCalled(s) == commit_outcome[s] # "none"

\* the bound index (R - 1) - (D - 2) of a commit call, over the integers
MathIndex(a) == (a.srs_g1_len - 1) - (a.circuit_domain - 2)

\* C1: new on n pairwise-distinct values fails with InvalidTableSize and
\* returns no table when n is not a power of two (n = 0 included), and
\* succeeds with a table when n is a power of two (srs_g1 holding the n - 1
\* elements the quotients need).
C1_PowerOfTwoConstruction ==
    \A s \in Slots :
        (NewCalled(s) /\ Distinct(values[s])) =>
            LET n == Len(values[s])
            IN  /\ ~IsPowerOfTwo(n) =>
                       new_outcome[s] = "InvalidTableSize" /\ table[s] = <<>>
                /\ (IsPowerOfTwo(n) /\ Len(srs_g1[s]) >= n - 1) =>
                       new_outcome[s] = "ok" /\ table[s] # <<>>

\* C2: new on an array of power-of-two length with a value at two positions
\* fails with DuplicateTableValue and returns no table; for a power-of-two
\* length that failure happens exactly when the array has fewer distinct
\* values than elements.
C2_DuplicateRejected ==
    \A s \in Slots :
        (NewCalled(s) /\ IsPowerOfTwo(Len(values[s]))) =>
            /\ ~Distinct(values[s]) =>
                   new_outcome[s] = "DuplicateTableValue" /\ table[s] = <<>>
            /\ new_outcome[s] = "DuplicateTableValue"
                   <=> Cardinality(Range(values[s])) < Len(values[s])

C2_Witness ==
    /\ new_outcome[1] = "DuplicateTableValue"
    /\ Len(values[1]) = 4
    /\ Cardinality(Range(values[1])) = 3

\* C3: the polynomial commit interpolates from the sorted keys is the
\* polynomial T(X) new interpolates from the values in array order: equal
\* at every root 1, w, w^2, ..., so that table_commitment is the commitment
\* to T(X).
C3_SameTablePolynomial ==
    \A s \in Slots :
        table[s] # <<>> =>
            LET self == table[s][1]
                k == ExponentOf(self.size)
                T == new_table_coeffs(values[s], k)
                C == commit_table_coeffs(self)
            IN  /\ \A i \in 1 .. self.size :
                       Eval(C, FPow(get_omega(k), i - 1))
                           = Eval(T, FPow(get_omega(k), i - 1))
                /\ commit_ret[s] # <<>> =>
                       commit_ret[s][1].t
                           = best_multiexp(T, Prefix(commit_args[s][1].srs_g2, Len(T)))

\* C4: in a table built by new, for every position i with g_i = w^i:
\* T(g_i) = values[i]; T(X) - T(g_i) = (X - g_i) * Q_i(X) with no remainder;
\* the i-th stored quotient is the multi-scalar multiplication of the
\* coefficients of Q_i, each times g_i / n, with the prefix of srs_g1; and
\* over a reference string of powers of tau that is the opening
\* (g_i / n) * (T(tau) - values[i]) / (tau - g_i).
C4_QuotientCorrect ==
    \A s \in Slots :
        table[s] # <<>> =>
            LET self == table[s][1]
                n == self.size
                k == ExponentOf(n)
                T == new_table_coeffs(values[s], k)
                srs == srs_g1[s]
            IN  /\ Len(T) = n
                /\ \A i \in 1 .. n :
                       LET g == FPow(get_omega(k), i - 1)
                           Q == kate_division(T, g)
                           c == FMul(g, FInvert(n % P))
                       IN  /\ Eval(T, g) = values[s][i]
                           /\ LinearTimesPlus(Q, g, values[s][i], n) = T
                           /\ self.qs[i]
                                  = SumTo([j \in 1 .. (n - 1) |->
                                              FMul(FMul(Q[j], c), srs[j])], n - 1)
                           /\ \A tau \in Taus :
                                  Prefix(srs, n - 1) = SrsOf(tau, n - 1) =>
                                      FMul(self.qs[i], FSub(tau, g))
                                          = FMul(c, FSub(Eval(T, tau), values[s][i]))

C4_Witness ==
    /\ table[1] # <<>>
    /\ table[1][1].size = 4
    /\ values[1] = <<2, 0, 3, 1>>
    /\ \A i \in 1 .. 4 : table[1][1].qs[i] # 0

\* C5: commit(R, srs_g2, D) returns bound_element = srs_g2[R - 1 - (D - 2)],
\* the index taken over the integers, and reference_size = R, whenever that
\* index lies inside srs_g2 (D = 0 and D = 1 included) and srs_g2 reaches
\* index size.
C5_BoundIndex ==
    \A s \in Slots :
        CommitCalled(s) =>
            LET a == commit_args[s][1]
                I == MathIndex(a)
            IN  (/\ I >= 0
                 /\ I < Len(a.srs_g2)
                 /\ Len(a.srs_g2) > table[s][1].size) =>
                    /\ commit_outcome[s] = "ok"
                    /\ commit_ret[s] # <<>>
                    /\ commit_ret[s][1].x_b0_bound = a.srs_g2[I + 1]
                    /\ commit_ret[s][1].size = a.srs_g1_len

\* C6: commit fails with ReferenceStringTooShort and returns nothing
\* whenever srs_g2 has no element at index size, has fewer than size
\* elements, or the bound index (R - 1) - (D - 2) is negative or outside
\* srs_g2; no wrapped-around index yields a result.  (The panic the index
\* subtraction raises under overflow checks is counted as that failure.)
C6_ShortReferenceStringRejected ==
    \A s \in Slots :
        CommitCalled(s) =>
            LET a == commit_args[s][1]
                I == MathIndex(a)
            IN  (\/ Len(a.srs_g2) <= table[s][1].size
                 \/ I < 0
                 \/ I >= Len(a.srs_g2)) =>
                    /\ commit_outcome[s] \in {"ReferenceStringTooShort",
                                              "ArithmeticOverflow"}
                    /\ commit_ret[s] = <<>>

\* C7: a table returned by new has, before and after commit: a power-of-two
\* size, as many keys as its size, values[i] mapped to i for every position
\* i (a bijection onto 0..size-1) and size quotients; commit's power-of-two
\* assertion does not fail on it.
C7_TableInvariant ==
    \A s \in Slots :
        table[s] # <<>> =>
            LET self == table[s][1]
                m == self.value_index_mapping
            IN  /\ IsPowerOfTwo(self.size)
                /\ self.size = Len(values[s])
                /\ Cardinality(DOMAIN m) = self.size
                /\ \A i \in 1 .. self.size : m[values[s][i]] = i - 1
                /\ {m[v] : v \in DOMAIN m} = 0 .. (self.size - 1)
                /\ Len(self.qs) = self.size
                /\ commit_outcome[s] # "InvalidTableSize"
                /\ is_pow_2(self.size, build) = [ok |-> TRUE, v |-> TRUE]

C7_Witness ==
    /\ pc[1] = "committed"
    /\ commit_outcome[1] = "ok"
    /\ table[1] # <<>>
    /\ table[1][1].size = 4

\* C8: required_degree returns max(3, 2 + degree of the input): 3 for an
\* input of degree 0 or 1, 2 + degree from degree 2 on, never less than 3.
C8_RequiredDegree ==
    (util # <<>> /\ util[1].fn = "required_degree") =>
        LET d == degree(util[1].input)
        IN  /\ util[1].ok
            /\ util[1].ret = (IF d <= 1 THEN 3 ELSE 2 + d)
            /\ util[1].ret >= 3

C8_Witness ==
    /\ util # <<>>
    /\ util[1].fn = "required_degree"
    /\ degree(util[1].input) = 3
    /\ util[1].ret = 5

\* C9: is_pow_2(x) is true exactly when x is a power of two (false for
\* x = 0), and log2(2^k) = k.
C9_PowerOfTwoUtilities ==
    /\ (util # <<>> /\ util[1].fn = "is_pow_2") =>
           util[1].ok /\ (util[1].flag <=> IsPowerOfTwo(util[1].x))
    /\ (util # <<>> /\ util[1].fn = "log2" /\ IsPowerOfTwo(util[1].x)) =>
           util[1].ok /\ util[1].ret = ExponentOf(util[1].x)

\* C10: two tables with the same set of values, committed with the same
\* arguments, end the same way and return CommittedTables equal in all four
\* fields, whatever the order of the values they were built from.
C10_CommitDeterministic ==
    \A s1, s2 \in Slots :
        (/\ CommitCalled(s1)
         /\ CommitCalled(s2)
         /\ commit_args[s1] = commit_args[s2]
         /\ DOMAIN table[s1][1].value_index_mapping
                = DOMAIN table[s2][1].value_index_mapping) =>
            /\ commit_outcome[s1] = commit_outcome[s2]
            /\ commit_ret[s1] = commit_ret[s2]

C10_Witness ==
    /\ CommitCalled(1)
    /\ CommitCalled(2)
    /\ commit_args[1] = commit_args[2]
    /\ commit_outcome[1] = "ok"
    /\ values[1] = <<0, 1, 2, 3>>
    /\ values[2] = <<3, 1, 0, 2>>
    /\ table[1][1].qs # table[2][1].qs

====
